---- MODULE Spec2Model ----
(***************************************************************************)
(* Voice accessibility assistant of the accessibility settings page        *)
(* (src/app/(tabs)/accessibility/page.tsx): the React state cells, the     *)
(* recognition passes with the render values their handlers close over,    *)
(* the speech-synthesis utterances with their completion callbacks, and    *)
(* the timers, as one state machine.                                       *)
(*                                                                         *)
(* Text is a sequence of one-character strings, so that includes(),        *)
(* toLowerCase() and trim() are computed on characters.                    *)
(***************************************************************************)
EXTENDS Integers, Sequences, FiniteSets, Bags, TLC

\* ------------------------------------------------------------------ bounds
\* Callbacks of abandoned objects pending at once: replaced recognition
\* objects whose end event is to come, cancelled utterances whose error
\* event is to come, and setTimeout callbacks.
MaxPending == 1
\* Clicks of the user (microphone button, switches of the page) in one run.
MaxClicks == 3
\* Result events the recognition service delivers in one run.
MaxResults == 2
\* Clicks of the microphone button in a run in which the user clicks nothing
\* else on the page.
MaxToggles == 4
\* Pieces a transcript is put together from.
MaxWords == 3
\* Final transcripts the recognition service delivers in one dialogue.
MaxUtterances == 3
\* Milliseconds the clock of the server advances.
MaxTime == 1

\* ----------------------------------------------------- program constants
\* command.length > 3
MinHintLength == 3

\* ------------------------------------------------------------------- text
keywordMap ==
  << [keyword |-> <<"h","i","g","h"," ","c","o","n","t","r","a","s","t">>,
      key |-> "highContrast"],
     [keyword |-> <<"c","o","n","t","r","a","s","t">>,
      key |-> "highContrast"],
     [keyword |-> <<"r","e","d","u","c","e","d"," ","m","o","t","i","o","n">>,
      key |-> "reducedMotion"],
     [keyword |-> <<"m","o","t","i","o","n">>,
      key |-> "reducedMotion"],
     [keyword |-> <<"t","e","x","t"," ","s","p","a","c","i","n","g">>,
      key |-> "textSpacing"],
     [keyword |-> <<"s","p","a","c","i","n","g">>,
      key |-> "textSpacing"],
     [keyword |-> <<"r","e","a","d","a","b","l","e"," ","f","o","n","t">>,
      key |-> "readableFont"],
     [keyword |-> <<"f","o","n","t">>,
      key |-> "readableFont"],
     [keyword |-> <<"l","i","n","k"," ","h","i","g","h","l","i","g","h","t">>,
      key |-> "linkHighlight"],
     [keyword |-> <<"l","i","n","k","s">>,
      key |-> "linkHighlight"],
     [keyword |-> <<"l","a","r","g","e"," ","t","e","x","t">>,
      key |-> "largeTextMode"],
     [keyword |-> <<"l","a","r","g","e"," ","b","u","t","t","o","n"," ","m","o","d","e">>,
      key |-> "largeButtonMode"],
     [keyword |-> <<"v","o","i","c","e"," ","c","o","n","t","r","o","l">>,
      key |-> "voiceControl"],
     [keyword |-> <<"r","e","a","d","i","n","g"," ","m","o","d","e">>,
      key |-> "readingMode"],
     [keyword |-> <<"a","s","s","i","s","t","i","v","e"," ","t","o","u","c","h">>,
      key |-> "assistiveTouch"],
     [keyword |-> <<"a","u","d","i","o"," ","a","s","s","i","s","t","a","n","c","e">>,
      key |-> "audioAssistance"],
     [keyword |-> <<"p","i","c","t","o","r","i","a","l"," ","m","e","n","u">>,
      key |-> "pictorialMenu"],
     [keyword |-> <<"v","o","i","c","e"," ","i","n","p","u","t">>,
      key |-> "voiceInput"],
     [keyword |-> <<"c","o","l","o","r"," ","b","l","i","n","d">>,
      key |-> "colorBlindMode"] >>

affirmativeWords ==
  << <<"t","o","g","g","l","e">>,
     <<"s","w","i","t","c","h">>,
     <<"y","e","s">>,
     <<"y","e","a","h">>,
     <<"y","e","p">>,
     <<"s","u","r","e">>,
     <<"o","k">>,
     <<"c","o","r","r","e","c","t">>,
     <<"t","u","r","n"," ","o","n">>,
     <<"t","u","r","n"," ","o","f","f">>,
     <<"e","n","a","b","l","e">>,
     <<"d","i","s","a","b","l","e">> >>

modes ==
  << [name |-> <<"p","r","o","t","a","n","o","p","i","a">>,
      value |-> "protanopia"],
     [name |-> <<"d","e","u","t","e","r","a","n","o","p","i","a">>,
      value |-> "deuteranopia"],
     [name |-> <<"t","r","i","t","a","n","o","p","i","a">>,
      value |-> "tritanopia"],
     [name |-> <<"n","o","n","e">>,
      value |-> "none"] >>

\* String.prototype.includes: sub occurs in s as a contiguous run.
Includes(s, sub) ==
  \E i \in 0..(Len(s) - Len(sub)) : SubSeq(s, i + 1, i + Len(sub)) = sub

UpperToLower ==
  [c \in {"A","B","C","D","E","F","G","H","I","J","K","L","M","N","O","P","Q","R","S","T","U","V","W","X","Y","Z"} |->
     CASE c = "A" -> "a"
       [] c = "B" -> "b"
       [] c = "C" -> "c"
       [] c = "D" -> "d"
       [] c = "E" -> "e"
       [] c = "F" -> "f"
       [] c = "G" -> "g"
       [] c = "H" -> "h"
       [] c = "I" -> "i"
       [] c = "J" -> "j"
       [] c = "K" -> "k"
       [] c = "L" -> "l"
       [] c = "M" -> "m"
       [] c = "N" -> "n"
       [] c = "O" -> "o"
       [] c = "P" -> "p"
       [] c = "Q" -> "q"
       [] c = "R" -> "r"
       [] c = "S" -> "s"
       [] c = "T" -> "t"
       [] c = "U" -> "u"
       [] c = "V" -> "v"
       [] c = "W" -> "w"
       [] c = "X" -> "x"
       [] c = "Y" -> "y"
       [] c = "Z" -> "z"]

\* String.prototype.toLowerCase
ToLowerCase(s) ==
  [i \in 1..Len(s) |->
     IF s[i] \in DOMAIN UpperToLower THEN UpperToLower[s[i]] ELSE s[i]]

WhiteSpace == {" ", "\t", "\n"}

\* trim had it dropped one white-space character at either end only
Trim_One(s) ==
  LET lo == IF s # <<>> /\ s[1] \in WhiteSpace THEN 2 ELSE 1
      hi == IF Len(s) >= lo /\ s[Len(s)] \in WhiteSpace THEN Len(s) - 1 ELSE Len(s)
  IN SubSeq(s, lo, hi)

\* String.prototype.trim: drop the leading and the trailing white space.
Trim(s) ==
  LET keep == {i \in 1..Len(s) : s[i] \notin WhiteSpace}
  IN IF keep = {} THEN <<>>
     ELSE LET lo == CHOOSE i \in keep : \A j \in keep : i <= j
              hi == CHOOSE i \in keep : \A j \in keep : j <= i
          IN SubSeq(s, lo, hi)

\* finalTranscript.toLowerCase().trim()
Normalize(s) == Trim(ToLowerCase(s))

\* --------------------------------------------------------------- settings
\* null of JavaScript
Null == "null"

\* The settings the lexicon can name.
SettingKeys == {keywordMap[i].key : i \in DOMAIN keywordMap}

\* Setting values are written as strings: "true" and "false" are the two
\* booleans, the others are the colour-vision modes.
BoolValues == {"true", "false"}

\* typeof currentVal === 'boolean'
IsBoolean(v) == v \in BoolValues

\* The settings whose value is a boolean.
BoolKeys == SettingKeys \ {"colorBlindMode"}

\* !currentVal
Negate(v) == IF v = "true" THEN "false" ELSE "true"

\* The store the page gets from useAccessibility() before any change.
DefaultSettings ==
  [k \in SettingKeys |-> IF k \in BoolKeys THEN "false" ELSE "none"]

\* ------------------------------------------------------------- utterances
\* Texts the recognition service delivers (raw, before normalisation).
T_HighContrast == <<"H","i","g","h"," ","C","o","n","t","r","a","s","t">>
T_Yes == <<" ","Y","e","s"," ">>
T_ColorBlind == <<"c","o","l","o","r"," ","b","l","i","n","d">>
T_Protanopia == <<"s","e","t"," ","i","t"," ","t","o"," ","P","r","o","t","a","n","o","p","i","a"," ","p","l","e","a","s","e">>
T_Hello == <<"h","e","l","l","o"," ","t","h","e","r","e">>
T_Hearing == <<"h","i","g","h">>
T_EnableLargeText == <<"E","n","a","b","l","e"," ","l","a","r","g","e"," ","t","e","x","t">>

FinalTranscripts == {T_HighContrast, T_Yes, T_ColorBlind, T_Protanopia, T_Hello}
InterimTranscripts == {T_Hearing}

\* A result event: the concatenated interim parts and the concatenated
\* final parts of event.results from event.resultIndex on.
ResultEvents ==
  {[interim |-> i, final |-> f] :
     i \in InterimTranscripts \cup {<<>>}, f \in FinalTranscripts \cup {<<>>}}
    \ {[interim |-> <<>>, final |-> <<>>]}

\* Settings the user flips with the switches of the page.
ManualKeys == {"highContrast"}

\* --------------------------------------------------------------- messages
\* A text shown or spoken: which template, and what it is filled with.
Msg(kind, key, val, text) ==
  [kind |-> kind, key |-> key, val |-> val, text |-> text]

Plain(kind) == Msg(kind, Null, Null, <<>>)

\* setVoiceFeedback('')
EmptyFeedback == Plain("empty")

\* currentVal ? 'enabled' : 'disabled'
StatusWord(v) == IF v = "true" THEN "enabled" ELSE "disabled"

\* ------------------------------------------------------------------ state
VARIABLES
  sessionActive,     \* useState: a listening session is open
  isListening,       \* useState: set by the start and end events
  voiceFeedback,     \* useState: the banner text
  suggestedSetting,  \* useState: the setting awaiting confirmation
  settings,          \* the accessibility settings store
  recognitionRef,    \* useRef: <<>> (null) or <<the recognition object last created>>
  replaced,          \* recognition objects no longer referenced, end event to come
  utt,               \* the utterance being spoken: <<>> or <<u>>
  cancelled,         \* cancelled utterances whose error event is to come
  timers,            \* pending setTimeout callbacks
  out,               \* what the last handler did: its calls of speak and updateSetting
  recogSupported,    \* platform: SpeechRecognition exists
  synthSupported,    \* platform: speechSynthesis exists
  clicks,            \* clicks of the user so far
  results,           \* result events so far
  finalTranscript,   \* onresult: the final text of the event at hand
  normalized,        \* onresult: finalTranscript.toLowerCase().trim()
  lookupKey,         \* processVoiceCommand: foundKey after the lexicon loop
  pc,                \* how far the interpretation of finalTranscript has come
  users,             \* table users: the clerk_id of its rows
  user_favorites,    \* table user_favorites: its rows
  user_addresses,    \* table user_addresses: its rows
  now,               \* the clock of the server, in milliseconds
  served             \* the last request to the user routes and its answer

\* The variables of the voice assistant of the page.
pageVars ==
  <<sessionActive, isListening, voiceFeedback, suggestedSetting, settings,
    recognitionRef, replaced, utt, cancelled, timers, out, recogSupported,
    synthSupported, clicks, results>>

\* The variables of the interpretation of one transcript, step by step.
textVars == <<finalTranscript, normalized, lookupKey, pc>>

\* The variables of the server: the database and the last request.
apiVars == <<users, user_favorites, user_addresses, now, served>>

vars == <<pageVars, textVars, apiVars>>

\* A recognition object (a capture pass) is [status, env]:
\*   starting   start() called, start event to come       (capturing)
\*   listening  start event delivered                     (capturing)
\*   halted     stop() called before the start event came
\*   stopping   stop() called while listening: one final result may come
\*   finishing  only the end event is to come
\*   ended      end event delivered, or start() threw
\* env is what its handlers close over: the values of the render whose
\* startListening created it.
PassStatus ==
  {"starting", "listening", "halted", "stopping", "finishing", "ended"}

NoEnv == [active |-> FALSE, suggested |-> Null, settings |-> DefaultSettings]

NoOut(op) ==
  [op |-> op, command |-> <<>>, spoken |-> <<>>, writes |-> <<>>,
   finished |-> <<>>, called |-> <<>>, alert |-> FALSE, error |-> FALSE,
   threw |-> FALSE]

\* The state as one record, so that a handler is a function on it.
Cur ==
  [sessionActive |-> sessionActive, isListening |-> isListening,
   voiceFeedback |-> voiceFeedback, suggestedSetting |-> suggestedSetting,
   settings |-> settings, recognitionRef |-> recognitionRef,
   replaced |-> replaced, utt |-> utt, cancelled |-> cancelled,
   timers |-> timers, out |-> out, recogSupported |-> recogSupported,
   synthSupported |-> synthSupported]

\* The values a render hands to the functions it defines.
RenderEnv(s) ==
  [active |-> s.sessionActive, suggested |-> s.suggestedSetting,
   settings |-> s.settings]

\* A pass that is capturing audio: started and not stopped or ended.
Capturing(pass) == pass.status \in {"starting", "listening"}

\* window.speechSynthesis.speaking
Speaking(s) == s.utt # <<>>

\* recognitionRef.current?.started: no code sets a property `started`, and
\* a SpeechRecognition object has none, so it reads undefined.
Started(s) == FALSE

\* The model stays within the bounds.
Bounded(s) ==
  BagCardinality(s.replaced) + BagCardinality(s.timers)
    + BagCardinality(s.cancelled) <= MaxPending

\* ------------------------------------------------------------- operations
\* updateSetting(key, value) of the settings store.
UpdateSetting(s, key, value) ==
  [s EXCEPT !.settings[key] = value,
            !.out.writes = Append(@, <<key, value>>)]

\* recognition.stop(): capture stops, the end event is to come.
Stopped(pass) ==
  [pass EXCEPT !.status = CASE @ = "starting" -> "halted"
                            [] @ = "listening" -> "stopping"
                            [] OTHER -> @]

\* if (recognitionRef.current) recognitionRef.current.stop()
StopCurrent(s) ==
  IF s.recognitionRef = <<>> THEN s
  ELSE [s EXCEPT !.recognitionRef = <<Stopped(@[1])>>]

\* window.speechSynthesis.cancel(): the utterance being spoken stops and
\* will get an error event (interrupted).
Cancel(s) ==
  IF s.utt = <<>> THEN s
  ELSE [s EXCEPT !.utt = <<>>,
                 !.cancelled =
                    IF s.utt[1].cb = "none" THEN @
                    ELSE @ (+) SetToBag({[cb |-> s.utt[1].cb,
                                          env |-> s.utt[1].env]})]

\* startListening without lines 105-112, the stop of the existing recognition
StartListening_NoStop(s, env, throws) ==
  IF ~s.recogSupported THEN [s EXCEPT !.out.alert = TRUE]
  ELSE
    LET s2 == IF s.recognitionRef = <<>> \/ s.recognitionRef[1].status = "ended"
                THEN s
                ELSE [s EXCEPT !.replaced = @ (+) SetToBag({s.recognitionRef[1]})]
        s3 == [s2 EXCEPT !.recognitionRef =
                            <<[status |-> IF throws THEN "ended" ELSE "starting",
                               env |-> env]>>]
    IN IF throws THEN [s3 EXCEPT !.isListening = FALSE, !.out.threw = TRUE]
                 ELSE s3

\* startListening of the render with values env; throws: recognition.start()
\* throws.
StartListening(s, env, throws) ==
  IF ~s.recogSupported THEN [s EXCEPT !.out.alert = TRUE]
  ELSE
    LET s1 == StopCurrent(s)
        \* the object the reference held: its end event is still to come,
        \* unless it has ended
        s2 == IF s1.recognitionRef = <<>> \/ s1.recognitionRef[1].status = "ended"
                THEN s1
                ELSE [s1 EXCEPT !.replaced = @ (+) SetToBag({s1.recognitionRef[1]})]
        s3 == [s2 EXCEPT !.recognitionRef =
                            <<[status |-> IF throws THEN "ended" ELSE "starting",
                               env |-> env]>>]
    IN IF throws THEN [s3 EXCEPT !.isListening = FALSE, !.out.threw = TRUE]
                 ELSE s3

\* The onEnd callbacks had they been the ones of the latest render
RunOnEnd_LatestRender(s, cb, env, throws) ==
  CASE cb = "mode" ->
         StartListening([s EXCEPT !.voiceFeedback = Plain("listeningForMode"),
                                  !.out.called = Append(@, cb)],
                        RenderEnv(s), throws)
    [] cb = "confirm" ->
         [s EXCEPT !.timers = @ (+) SetToBag({[kind |-> "confirm",
                                               env |-> RenderEnv(s)]}),
                   !.out.called = Append(@, cb)]
    [] OTHER -> s

\* The onEnd callback of speak: none, the one of the colour-blind readout
\* (cb = "mode"), the one of the status readout (cb = "confirm").
RunOnEnd(s, cb, env, throws) ==
  CASE cb = "mode" ->
         StartListening([s EXCEPT !.voiceFeedback = Plain("listeningForMode"),
                                  !.out.called = Append(@, cb)],
                        env, throws)
    [] cb = "confirm" ->
         [s EXCEPT !.timers = @ (+) SetToBag({[kind |-> "confirm", env |-> env]}),
                   !.out.called = Append(@, cb)]
    [] OTHER -> s

\* speak without its else branch (line 75)
Speak_NoFallback(s, msg, cb, env, throws) ==
  LET s0 == [s EXCEPT !.out.spoken = Append(@, msg)]
  IN IF s.synthSupported
       THEN [Cancel(s0) EXCEPT !.utt = <<[msg |-> msg, cb |-> cb, env |-> env]>>]
       ELSE s0

\* speak(text, onEnd)
Speak(s, msg, cb, env, throws) ==
  LET s0 == [s EXCEPT !.out.spoken = Append(@, msg)]
  IN IF s.synthSupported
       THEN [Cancel(s0) EXCEPT !.utt = <<[msg |-> msg, cb |-> cb, env |-> env]>>]
       ELSE RunOnEnd(s0, cb, env, throws)

\* endSession without its last line, window.speechSynthesis.cancel()
EndSession_NoCancel(s) ==
  LET s1 == StopCurrent(s)
  IN [s1 EXCEPT !.isListening = FALSE, !.sessionActive = FALSE,
                !.suggestedSetting = Null,
                !.voiceFeedback = EmptyFeedback]

\* endSession
EndSession(s) ==
  LET s1 == StopCurrent(s)
      s2 == [s1 EXCEPT !.isListening = FALSE, !.sessionActive = FALSE,
                       !.suggestedSetting = Null,
                       !.voiceFeedback = EmptyFeedback]
  IN Cancel(s2)

\* toggleVoiceAssistant of the current render
ToggleVoiceAssistant(s, throws) ==
  IF s.sessionActive
    THEN EndSession(s)
    ELSE StartListening([s EXCEPT !.sessionActive = TRUE], RenderEnv(s),
                        throws)

\* modes.find(m => command.includes(m)): the value of the first mode name,
\* in the order of the array, that the command contains; Null when none.
SelectedMode(command) ==
  LET hits == {i \in DOMAIN modes : Includes(command, modes[i].name)}
  IN IF hits = {} THEN Null
     ELSE modes[CHOOSE i \in hits : \A j \in hits : i <= j].value

\* affirmativeWords.some(word => command.includes(word))
IsAffirmative(command) ==
  \E i \in DOMAIN affirmativeWords : Includes(command, affirmativeWords[i])

\* The lexicon loop had it preferred the longest keyword the command contains
FoundKey_Longest(command) ==
  LET hits == {i \in DOMAIN keywordMap : Includes(command, keywordMap[i].keyword)}
      longest == {i \in hits : \A j \in hits :
                    Len(keywordMap[j].keyword) <= Len(keywordMap[i].keyword)}
  IN IF hits = {} THEN Null
     ELSE keywordMap[CHOOSE i \in longest : \A j \in longest : i <= j].key

\* The loop over Object.entries(keywordMap): the key of the first keyword,
\* in declaration order, that the command contains; Null when none.
FoundKey(command) ==
  LET hits == {i \in DOMAIN keywordMap : Includes(command, keywordMap[i].keyword)}
  IN IF hits = {} THEN Null
     ELSE keywordMap[CHOOSE i \in hits : \A j \in hits : i <= j].key

\* processVoiceCommand(command) of the render with values env.
ProcessVoiceCommand(s, env, command, throws) ==
  LET selectedMode == SelectedMode(command)
      foundKey == FoundKey(command)
  IN
  IF env.suggested = "colorBlindMode" /\ selectedMode # Null THEN
    LET msg == Msg("modeSet", "colorBlindMode", selectedMode, <<>>)
        s1 == UpdateSetting(s, "colorBlindMode", selectedMode)
        s2 == Speak(s1, msg, "none", env, throws)
    IN [s2 EXCEPT !.voiceFeedback = msg, !.suggestedSetting = Null]
  ELSE IF IsAffirmative(command) THEN
    IF env.suggested # Null THEN
      IF env.suggested = "colorBlindMode" THEN
        LET s1 == Speak(s, Plain("modePrompt"), "none", env, throws)
        IN [s1 EXCEPT !.voiceFeedback = Plain("sayMode")]
      ELSE
        LET currentVal == env.settings[env.suggested]
        IN IF IsBoolean(currentVal) THEN
             LET msg == Msg("toggled", env.suggested,
                            StatusWord(Negate(currentVal)), <<>>)
                 s1 == UpdateSetting(s, env.suggested, Negate(currentVal))
                 s2 == Speak(s1, msg, "none", env, throws)
             IN [s2 EXCEPT !.voiceFeedback = msg, !.suggestedSetting = Null]
           ELSE
             Speak(s, Msg("cannotToggle", env.suggested, Null, <<>>), "none",
                   env, throws)
    ELSE Speak(s, Plain("noSettingSelected"), "none", env, throws)
  ELSE IF foundKey # Null THEN
    LET currentVal == env.settings[foundKey]
        s1 == [s EXCEPT !.suggestedSetting = foundKey]
    IN IF foundKey = "colorBlindMode" THEN
         LET response == Msg("foundMode", foundKey, currentVal, <<>>)
             s2 == [s1 EXCEPT !.voiceFeedback = response]
             s3 == StopCurrent(s2)
         IN Speak(s3, response, "mode", env, throws)
       ELSE
         LET status == IF IsBoolean(currentVal) THEN StatusWord(currentVal)
                       ELSE currentVal
             response == Msg("found", foundKey, status, <<>>)
             s2 == [s1 EXCEPT !.voiceFeedback = response]
             s3 == StopCurrent(s2)
         IN Speak(s3, response, "confirm", env, throws)
  ELSE IF env.suggested = Null /\ Len(command) > MinHintLength
    THEN [s EXCEPT !.voiceFeedback = Plain("notFound")]
    ELSE s

\* recognition.onstart of a pass whose handlers close over env
OnStartHandler(s, env) ==
  [s EXCEPT !.isListening = TRUE,
            !.voiceFeedback =
               IF env.suggested = Null
                 THEN Plain("listeningForSetting")
                 ELSE Plain("listeningForConfirm")]

\* recognition.onend
OnEndHandler(s, env) ==
  LET s1 == [s EXCEPT !.isListening = FALSE]
  IN IF env.active /\ s.synthSupported /\ ~Speaking(s)
       THEN [s1 EXCEPT !.timers =
                          @ (+) SetToBag({[kind |-> "restart", env |-> env]})]
       ELSE s1

\* recognition.onresult without the test of line 160: what was heard so
\* far goes to the interpreter when there is no final part
OnResultHandler_InterimToo(s, env, event, throws) ==
  LET s1 == IF event.interim # <<>>
              THEN [s EXCEPT !.voiceFeedback =
                                Msg("hearing", Null, Null, event.interim)]
              ELSE s
      heard == IF event.final # <<>> THEN event.final ELSE event.interim
      command == Normalize(heard)
      s2 == [s1 EXCEPT !.voiceFeedback = Msg("youSaid", Null, Null, command),
                       !.out.command = IF event.final # <<>> THEN command ELSE <<>>]
  IN ProcessVoiceCommand(s2, env, command, throws)

\* recognition.onresult
OnResultHandler(s, env, event, throws) ==
  LET s1 == IF event.interim # <<>>
              THEN [s EXCEPT !.voiceFeedback =
                                Msg("hearing", Null, Null, event.interim)]
              ELSE s
  IN IF event.final # <<>>
       THEN LET command == Normalize(event.final)
                s2 == [s1 EXCEPT !.voiceFeedback =
                                    Msg("youSaid", Null, Null, command),
                                 !.out.command = command]
            IN ProcessVoiceCommand(s2, env, command, throws)
       ELSE s1

\* The callbacks given to setTimeout: the restart of onend (300 ms) and the
\* restart after the status readout (100 ms).
TimerHandler(s, t, throws) ==
  IF t.kind = "confirm"
    THEN StartListening(
           [s EXCEPT !.voiceFeedback = Plain("listeningForConfirmation")],
           t.env, throws)
    ELSE IF t.env.active /\ ~Started(s)
           THEN StartListening(s, t.env, throws)
           ELSE s

\* onClick of the audio assistance button
AudioAssistanceClick(s) ==
  IF s.settings["audioAssistance"] = "true"
    THEN IF s.synthSupported
           THEN UpdateSetting(Cancel(s), "audioAssistance", "false")
           ELSE s
    ELSE UpdateSetting(
           Speak(s, Plain("features"), "none", NoEnv, FALSE),
           "audioAssistance", "true")

\* ----------------------------------------------------------------- server
\* The ids of the rows of table restaurants, and an id that no row has.
Restaurants == {"r1"}
UnknownRestaurant == "r9"

\* The ids of the users the identity provider knows.
UserIds == {"u1", "u2"}

\* The bodies of the requests. parsed: request.json() returns an object; a
\* field that the object lacks is Null.
FavoriteBodies ==
  {[parsed |-> TRUE, restaurantId |-> r] :
     r \in Restaurants \cup {UnknownRestaurant, Null}}
    \cup {[parsed |-> FALSE, restaurantId |-> Null]}

AddressBodies ==
  {[parsed |-> TRUE, type |-> ty, address |-> a, isDefault |-> b] :
     ty \in {"home", Null}, a \in {"a1", Null}, b \in BOOLEAN}
    \cup {[parsed |-> FALSE, type |-> Null, address |-> Null,
           isDefault |-> FALSE]}

Request(route, method, userId, body) ==
  [route |-> route, method |-> method, userId |-> userId, body |-> body]

NoResponse ==
  [request |-> Request("none", "none", Null, Null), status |-> 0,
   favorited |-> FALSE, id |-> <<>>, rows |-> EmptyBag]

\* The database as one record, so that a handler is a function on it.
Db ==
  [users |-> users, user_favorites |-> user_favorites,
   user_addresses |-> user_addresses]

\* NextResponse.json(...) with the database as the handler leaves it.
Answer(d, status) ==
  [db |-> d, status |-> status, favorited |-> FALSE, id |-> <<>>,
   rows |-> EmptyBag]

\* The table with the rows (a set of them) that a WHERE clause selects.
Select(table, rows) == [row \in rows |-> table[row]]

\* Date.now().toString()
Digits == <<"0", "1", "2", "3", "4", "5", "6", "7", "8", "9">>

RECURSIVE NumberToString(_)
NumberToString(n) ==
  IF n < 10 THEN <<Digits[n + 1]>>
  ELSE NumberToString(n \div 10) \o <<Digits[(n % 10) + 1]>>

\* INSERT INTO users (id, clerk_id, email, ...): the row of the sync has
\* id = clerk_id = userId and the email userId@temp.com, so that it breaks
\* PRIMARY KEY or UNIQUE exactly when a row of that user exists.
InsertUser(d, userId) ==
  IF userId \in d.users THEN [ok |-> FALSE, db |-> d]
  ELSE [ok |-> TRUE, db |-> [d EXCEPT !.users = @ \cup {userId}]]

\* INSERT INTO user_favorites (user_id, restaurant_id), under PRIMARY KEY
\* (user_id, restaurant_id) and the two FOREIGN KEYs.
InsertFavorite(d, userId, restaurantId) ==
  LET row == [user_id |-> userId, restaurant_id |-> restaurantId]
  IN IF \/ BagIn(row, d.user_favorites)
        \/ userId \notin d.users
        \/ restaurantId \notin Restaurants
       THEN [ok |-> FALSE, db |-> d]
       ELSE [ok |-> TRUE,
             db |-> [d EXCEPT !.user_favorites = @ (+) SetToBag({row})]]

\* INSERT INTO user_addresses (id, user_id, type, address, is_default),
\* under PRIMARY KEY id, NOT NULL and the FOREIGN KEY.
InsertAddress(d, row) ==
  IF \/ \E r \in BagToSet(d.user_addresses) : r.id = row.id
     \/ row.user_id \notin d.users
     \/ row.type = Null
     \/ row.address = Null
    THEN [ok |-> FALSE, db |-> d]
    ELSE [ok |-> TRUE,
          db |-> [d EXCEPT !.user_addresses = @ (+) SetToBag({row})]]

\* The sync of both POST handlers: the row of the user is inserted when
\* no row has the clerk_id.
EnsureUser(d, userId) ==
  IF userId \in d.users THEN [ok |-> TRUE, db |-> d]
  ELSE InsertUser(d, userId)

\* GET of the favorites route
FavoritesGet(d, userId) ==
  IF userId = Null THEN Answer(d, 200)
  ELSE
    LET mine == Select(d.user_favorites,
                       {r \in BagToSet(d.user_favorites) :
                          /\ r.user_id = userId
                          /\ r.restaurant_id \in Restaurants})
    IN [Answer(d, 200) EXCEPT
          !.rows = BagOfAll(LAMBDA r : r.restaurant_id, mine)]

\* POST of the favorites route had it not looked for the existing row
FavoritesPost_AlwaysInsert(d, userId, body) ==
  IF userId = Null THEN Answer(d, 401)
  ELSE IF ~body.parsed THEN Answer(d, 500)
  ELSE IF body.restaurantId = Null THEN Answer(d, 400)
  ELSE
    LET user == EnsureUser(d, userId)
        ins == InsertFavorite(user.db, userId, body.restaurantId)
    IN IF ~user.ok THEN Answer(d, 500)
       ELSE IF ~ins.ok THEN Answer(user.db, 500)
       ELSE [Answer(ins.db, 200) EXCEPT !.favorited = TRUE]

\* POST of the favorites route
FavoritesPost(d, userId, body) ==
  IF userId = Null THEN Answer(d, 401)
  ELSE IF ~body.parsed THEN Answer(d, 500)
  ELSE IF body.restaurantId = Null THEN Answer(d, 400)
  ELSE
    LET existing(r) == /\ r.user_id = userId
                       /\ r.restaurant_id = body.restaurantId
    IN IF \E r \in BagToSet(d.user_favorites) : existing(r)
         THEN Answer([d EXCEPT !.user_favorites =
                                  Select(@, {r \in BagToSet(@) :
                                               ~existing(r)})],
                     200)
         ELSE
           LET user == EnsureUser(d, userId)
               ins == InsertFavorite(user.db, userId, body.restaurantId)
           IN IF ~user.ok THEN Answer(d, 500)
              ELSE IF ~ins.ok THEN Answer(user.db, 500)
              ELSE [Answer(ins.db, 200) EXCEPT !.favorited = TRUE]

\* GET of the addresses route (the order of the rows is left out)
AddressesGet(d, userId) ==
  IF userId = Null THEN Answer(d, 200)
  ELSE [Answer(d, 200) EXCEPT
          !.rows = Select(d.user_addresses,
                          {r \in BagToSet(d.user_addresses) :
                             r.user_id = userId})]

\* UPDATE user_addresses SET is_default = 0 WHERE user_id = ?
UnsetDefaults(d, userId) ==
  [d EXCEPT !.user_addresses =
     BagOfAll(LAMBDA r : IF r.user_id = userId
                           THEN [r EXCEPT !.is_default = 0] ELSE r, @)]

\* POST of the addresses route without the test of line 109
AddressesPost_NoFieldTest(d, userId, body, time) ==
  IF userId = Null THEN Answer(d, 401)
  ELSE IF ~body.parsed THEN Answer(d, 500)
  ELSE
    LET user == EnsureUser(d, userId)
        d2 == IF body.isDefault THEN UnsetDefaults(user.db, userId)
              ELSE user.db
        id == NumberToString(time)
        ins == InsertAddress(d2, [id |-> id, user_id |-> userId,
                                  type |-> body.type,
                                  address |-> body.address,
                                  is_default |-> IF body.isDefault
                                                   THEN 1 ELSE 0])
    IN IF ~user.ok THEN Answer(d, 500)
       ELSE IF ~ins.ok THEN Answer(d2, 500)
       ELSE [Answer(ins.db, 200) EXCEPT !.id = id]

\* POST of the addresses route; time: what Date.now() returns
AddressesPost(d, userId, body, time) ==
  IF userId = Null THEN Answer(d, 401)
  ELSE IF ~body.parsed THEN Answer(d, 500)
  ELSE IF body.address = Null \/ body.type = Null THEN Answer(d, 400)
  ELSE
    LET user == EnsureUser(d, userId)
        d2 == IF body.isDefault THEN UnsetDefaults(user.db, userId)
              ELSE user.db
        id == NumberToString(time)
        ins == InsertAddress(d2, [id |-> id, user_id |-> userId,
                                  type |-> body.type,
                                  address |-> body.address,
                                  is_default |-> IF body.isDefault
                                                   THEN 1 ELSE 0])
    IN IF ~user.ok THEN Answer(d, 500)
       ELSE IF ~ins.ok THEN Answer(d2, 500)
       ELSE [Answer(ins.db, 200) EXCEPT !.id = id]

\* ---------------------------------------------------------------- actions
\* The page after its first render.
InitPage ==
  /\ sessionActive = FALSE
  /\ isListening = FALSE
  /\ voiceFeedback = EmptyFeedback
  /\ suggestedSetting = Null
  /\ settings = DefaultSettings
  /\ recognitionRef = <<>>
  /\ replaced = EmptyBag
  /\ utt = <<>>
  /\ cancelled = EmptyBag
  /\ timers = EmptyBag
  /\ out = NoOut("init")
  /\ recogSupported \in BOOLEAN
  /\ synthSupported \in BOOLEAN
  /\ clicks = 0
  /\ results = 0

\* No transcript is being interpreted step by step.
InitText ==
  /\ finalTranscript = <<>>
  /\ normalized = <<>>
  /\ lookupKey = Null
  /\ pc = "idle"

\* The database after initializeDatabase, before any request of a user.
InitApi ==
  /\ users = {}
  /\ user_favorites = EmptyBag
  /\ user_addresses = EmptyBag
  /\ now = 0
  /\ served = NoResponse

Init == InitPage /\ InitText /\ InitApi

Begin(op) == [Cur EXCEPT !.out = NoOut(op)]

Commit(s) ==
  /\ Bounded(s)
  /\ sessionActive' = s.sessionActive
  /\ isListening' = s.isListening
  /\ voiceFeedback' = s.voiceFeedback
  /\ suggestedSetting' = s.suggestedSetting
  /\ settings' = s.settings
  /\ recognitionRef' = s.recognitionRef
  /\ replaced' = s.replaced
  /\ utt' = s.utt
  /\ cancelled' = s.cancelled
  /\ timers' = s.timers
  /\ out' = s.out
  /\ UNCHANGED <<recogSupported, synthSupported>>
  /\ UNCHANGED <<textVars, apiVars>>

\* The recognition objects that can still deliver an event.
LivePasses ==
  {[current |-> TRUE, pass |-> recognitionRef[i]] : i \in DOMAIN recognitionRef}
    \cup {[current |-> FALSE, pass |-> o] : o \in BagToSet(replaced)}

\* The state with the status of a live pass changed.
WithStatus(s, live, status) ==
  IF live.current
    THEN [s EXCEPT !.recognitionRef = <<[live.pass EXCEPT !.status = status]>>]
    ELSE [s EXCEPT !.replaced =
                      (@ (-) SetToBag({live.pass}))
                        (+) SetToBag({[live.pass EXCEPT !.status = status]})]

\* The state with a live pass ended: the referenced object stays referenced,
\* a replaced one is gone.
WithEnded(s, live) ==
  IF live.current
    THEN [s EXCEPT !.recognitionRef = <<[live.pass EXCEPT !.status = "ended"]>>]
    ELSE [s EXCEPT !.replaced = @ (-) SetToBag({live.pass})]

\* The user clicks the microphone button.
ClickVoiceAssistant ==
  \E throws \in BOOLEAN :
    /\ clicks < MaxClicks
    /\ clicks' = clicks + 1
    /\ UNCHANGED results
    /\ Commit(ToggleVoiceAssistant(Begin("toggleVoiceAssistant"), throws))

\* The start event of a pass arrives (also after stop() was called on it).
RecognitionStart ==
  \E live \in LivePasses :
    /\ live.pass.status \in {"starting", "halted"}
    /\ UNCHANGED <<clicks, results>>
    /\ LET s1 == WithStatus(Begin("onstart"), live,
                            IF live.pass.status = "starting"
                              THEN "listening" ELSE "finishing")
       IN Commit(OnStartHandler(s1, live.pass.env))

\* A result event of a pass arrives: while it listens, or once after stop()
\* (the result of the audio captured so far). With continuous = false the
\* pass returns one final result and then ends.
RecognitionResult ==
  \E live \in LivePasses, event \in ResultEvents, throws \in BOOLEAN :
    /\ \/ live.pass.status = "listening"
       \/ live.pass.status = "stopping" /\ event.final # <<>>
    /\ results < MaxResults
    /\ results' = results + 1
    /\ UNCHANGED clicks
    /\ LET s0 == Begin("onresult")
           s1 == IF event.final # <<>>
                   THEN WithStatus(s0, live, "finishing") ELSE s0
       IN Commit(OnResultHandler(s1, live.pass.env, event, throws))

\* The end event of a pass arrives: after its result, after stop(), on
\* silence, or after an error of the recognition service (not-allowed,
\* audio-capture) that ends a running pass. The page sets no onerror
\* handler, so the end event is all it gets of an error.
RecognitionEnd ==
  \E live \in LivePasses, error \in BOOLEAN :
    /\ live.pass.status # "ended"
    /\ error => Capturing(live.pass)
    /\ UNCHANGED <<clicks, results>>
    /\ LET s1 == [Begin("onend") EXCEPT !.out.error = error]
       IN Commit(OnEndHandler(WithEnded(s1, live), live.pass.env))

\* The utterance being spoken finishes (onend) or fails (onerror): both
\* handlers call onEnd.
UtteranceEnd ==
  \E throws \in BOOLEAN :
    /\ utt # <<>>
    /\ UNCHANGED <<clicks, results>>
    /\ LET s1 == [Begin("utterance.onend") EXCEPT
                    !.utt = <<>>, !.out.finished = <<utt[1].msg>>]
       IN Commit(RunOnEnd(s1, utt[1].cb, utt[1].env, throws))

\* The error event of a cancelled utterance arrives (e.error is
\* 'interrupted' or 'canceled'): onerror logs nothing and calls onEnd.
UtteranceCancelled ==
  \E c \in BagToSet(cancelled), throws \in BOOLEAN :
    LET s1 == [Begin("utterance.onerror") EXCEPT
                 !.cancelled = @ (-) SetToBag({c})]
    IN /\ Commit(RunOnEnd(s1, c.cb, c.env, throws))
       /\ UNCHANGED <<clicks, results>>

\* A pending setTimeout callback runs.
TimerFire ==
  \E t \in BagToSet(timers), throws \in BOOLEAN :
    LET s1 == [Begin("timer") EXCEPT !.timers = @ (-) SetToBag({t})]
    IN /\ Commit(TimerHandler(s1, t, throws))
       /\ UNCHANGED <<clicks, results>>

\* The user flips a switch of the page: updateSetting(key, !isEnabled).
ClickSetting ==
  \E k \in ManualKeys :
    /\ clicks < MaxClicks
    /\ clicks' = clicks + 1
    /\ UNCHANGED results
    /\ Commit(UpdateSetting(Begin("clickSetting"), k, Negate(settings[k])))

\* The user clicks the audio assistance button.
ClickAudioAssistance ==
  /\ clicks < MaxClicks
  /\ clicks' = clicks + 1
  /\ UNCHANGED results
  /\ Commit(AudioAssistanceClick(Begin("clickAudioAssistance")))

Next ==
  \/ ClickVoiceAssistant
  \/ RecognitionStart
  \/ RecognitionResult
  \/ RecognitionEnd
  \/ UtteranceEnd
  \/ UtteranceCancelled
  \/ TimerFire
  \/ ClickSetting
  \/ ClickAudioAssistance

Spec == Init /\ [][Next]_vars

\* The runs in which the user touches nothing but the microphone button:
\* sessions started and stopped several times over.
ClickVoiceAssistantOnly ==
  \E throws \in BOOLEAN :
    /\ clicks < MaxToggles
    /\ clicks' = clicks + 1
    /\ UNCHANGED results
    /\ Commit(ToggleVoiceAssistant(Begin("toggleVoiceAssistant"), throws))

NextVoice ==
  \/ ClickVoiceAssistantOnly
  \/ RecognitionStart
  \/ RecognitionResult
  \/ RecognitionEnd
  \/ UtteranceEnd
  \/ UtteranceCancelled
  \/ TimerFire

SpecVoice == Init /\ [][NextVoice]_vars

\* The dialogues: the user clicks the microphone button and the switches of
\* the page and speaks; the recognition service delivers final transcripts
\* only, among them one with an affirmative word and a keyword. The first
\* thing the user says in a dialogue is "High Contrast".
DialogueEvents ==
  {[interim |-> <<>>, final |-> f] :
     f \in FinalTranscripts \cup {T_EnableLargeText}}

OpeningEvents == {[interim |-> <<>>, final |-> T_HighContrast]}

ClickVoiceAssistantInDialogue ==
  \E throws \in BOOLEAN :
    /\ clicks < MaxToggles
    /\ clicks' = clicks + 1
    /\ UNCHANGED results
    /\ Commit(ToggleVoiceAssistant(Begin("toggleVoiceAssistant"), throws))

ClickSettingInDialogue ==
  \E k \in ManualKeys :
    /\ clicks < MaxToggles
    /\ clicks' = clicks + 1
    /\ UNCHANGED results
    /\ Commit(UpdateSetting(Begin("clickSetting"), k, Negate(settings[k])))

RecognitionResultInDialogue ==
  \E live \in LivePasses, throws \in BOOLEAN,
     event \in IF results = 0 THEN OpeningEvents ELSE DialogueEvents :
    /\ live.pass.status \in {"listening", "stopping"}
    /\ results < MaxUtterances
    /\ results' = results + 1
    /\ UNCHANGED clicks
    /\ LET s1 == WithStatus(Begin("onresult"), live, "finishing")
       IN Commit(OnResultHandler(s1, live.pass.env, event, throws))

NextDialogue ==
  \/ ClickVoiceAssistantInDialogue
  \/ ClickSettingInDialogue
  \/ RecognitionStart
  \/ RecognitionResultInDialogue
  \/ RecognitionEnd
  \/ UtteranceEnd
  \/ UtteranceCancelled
  \/ TimerFire

SpecDialogue == Init /\ [][NextDialogue]_vars

\* ------------------------------------------- one transcript, step by step
\* The pieces of the transcripts: keywords of the lexicon as the recognition
\* service spells them, other words, white space.
Words ==
  { <<"l","a","r","g","e"," ","b","u","t","t","o","n"," ","m","o","d","e">>,
    <<"L","i","n","k","s">>,
    <<"M","o","t","i","o","n">>,
    <<"C","o","n","t","r","a","s","t">>,
    <<"h","i","g","h"," ">>,
    <<"h","e","l","l","o">>,
    <<" ">>,
    <<"\t">> }

\* The texts put together from at most n pieces.
RECURSIVE TextsOf(_)
TextsOf(n) ==
  IF n = 0 THEN {<<>>}
  ELSE LET shorter == TextsOf(n - 1)
       IN shorter \cup {w \o s : w \in Words, s \in shorter}

\* The final transcripts of a result event: if (finalTranscript) lets the
\* non-empty ones through.
Transcripts == TextsOf(MaxWords) \ {<<>>}

\* A result event with a final transcript has arrived.
InitHeard ==
  /\ InitPage
  /\ InitApi
  /\ finalTranscript \in Transcripts
  /\ normalized = <<>>
  /\ lookupKey = Null
  /\ pc = "heard"

\* const command = finalTranscript.toLowerCase().trim()
NormalizeTranscript ==
  /\ pc = "heard"
  /\ normalized' = Normalize(finalTranscript)
  /\ pc' = "normalized"
  /\ UNCHANGED <<finalTranscript, lookupKey>>
  /\ UNCHANGED <<pageVars, apiVars>>

\* The lexicon loop of processVoiceCommand on the command.
LookUp ==
  /\ pc = "normalized"
  /\ lookupKey' = FoundKey(normalized)
  /\ pc' = "found"
  /\ UNCHANGED <<finalTranscript, normalized>>
  /\ UNCHANGED <<pageVars, apiVars>>

\* The command is normalised once more.
NormalizeAgain ==
  /\ pc = "found"
  /\ normalized' = Normalize(normalized)
  /\ pc' = "again"
  /\ UNCHANGED <<finalTranscript, lookupKey>>
  /\ UNCHANGED <<pageVars, apiVars>>

NextText ==
  \/ NormalizeTranscript
  \/ LookUp
  \/ NormalizeAgain

SpecText == InitHeard /\ [][NextText]_vars

\* ------------------------------------------------------- the user routes
\* A request is served: the handler runs to its answer (its statements on
\* the database are synchronous, and nothing is awaited between them).
Serve(request, answer) ==
  /\ users' = answer.db.users
  /\ user_favorites' = answer.db.user_favorites
  /\ user_addresses' = answer.db.user_addresses
  /\ served' = [request |-> request, status |-> answer.status,
                favorited |-> answer.favorited, id |-> answer.id,
                rows |-> answer.rows]

\* userId: the id of the signed-in user, Null when nobody is signed in.
GetFavorites ==
  \E userId \in UserIds \cup {Null} :
    /\ Serve(Request("favorites", "GET", userId, Null),
             FavoritesGet(Db, userId))
    /\ UNCHANGED <<now, pageVars, textVars>>

PostFavorites ==
  \E userId \in UserIds \cup {Null}, body \in FavoriteBodies :
    /\ Serve(Request("favorites", "POST", userId, body),
             FavoritesPost(Db, userId, body))
    /\ UNCHANGED <<now, pageVars, textVars>>

GetAddresses ==
  \E userId \in UserIds \cup {Null} :
    /\ Serve(Request("addresses", "GET", userId, Null),
             AddressesGet(Db, userId))
    /\ UNCHANGED <<now, pageVars, textVars>>

PostAddresses ==
  \E userId \in UserIds \cup {Null}, body \in AddressBodies :
    /\ Serve(Request("addresses", "POST", userId, body),
             AddressesPost(Db, userId, body, now))
    /\ UNCHANGED <<now, pageVars, textVars>>

\* A millisecond passes.
Tick ==
  /\ now < MaxTime
  /\ now' = now + 1
  /\ UNCHANGED <<users, user_favorites, user_addresses, served>>
  /\ UNCHANGED <<pageVars, textVars>>

NextApi ==
  \/ GetFavorites
  \/ PostFavorites
  \/ GetAddresses
  \/ PostAddresses
  \/ Tick

SpecApi == Init /\ [][NextApi]_vars

\* ----------------------------------------------------------------- claims
\* Some capture pass is running.
AnyCapturing == \E live \in LivePasses : Capturing(live.pass)

\* Something is still to come that may start a capture pass: a timer, the
\* error event of a cancelled utterance, the end event of a pass.
RestartPending ==
  \/ timers # EmptyBag
  \/ cancelled # EmptyBag
  \/ \E live \in LivePasses : live.pass.status # "ended"

\* The platform has speech recognition and speech synthesis.
FullPlatform == recogSupported /\ synthSupported

\* The step delivers a final transcript to the interpreter.
Dispatches == results' # results /\ out'.command # <<>>

Spoken(o) == {o.spoken[i] : i \in DOMAIN o.spoken}

\* The status readout of setting k when its value is v.
Readout(k, v) ==
  IF k = "colorBlindMode" THEN Msg("foundMode", k, v, <<>>)
  ELSE Msg("found", k, StatusWord(v), <<>>)

\* The responses the interpreter speaks.
InterpreterResponses ==
  {"found", "foundMode", "toggled", "modeSet", "modePrompt",
   "noSettingSelected"}

\* C1: in a session the user started and did not stop (one click so far),
\* when a boolean setting S is pending after its status readout was spoken
\* and the next final utterance is affirmative, S is written with the
\* negation of its value, the pending setting becomes none, and the answer
\* is not the "no setting selected" guidance.
C1_ConfirmFlowToggles ==
  [][(/\ FullPlatform
      /\ clicks = 1
      /\ sessionActive
      /\ suggestedSetting \in BoolKeys
      /\ Dispatches
      /\ IsAffirmative(out'.command))
       => (/\ settings' = [settings EXCEPT ![suggestedSetting] = Negate(@)]
           /\ suggestedSetting' = Null
           /\ Plain("noSettingSelected") \notin Spoken(out'))]_vars

\* C2: while the session stays inactive, no timer, no error callback of a
\* cancelled utterance and no end event of a pass starts a capture pass.
C2_NoCaptureAfterStop ==
  [][(/\ FullPlatform
      /\ ~sessionActive /\ ~sessionActive'
      /\ out'.op \in {"timer", "utterance.onerror", "onend"})
       => (AnyCapturing' => AnyCapturing)]_vars

\* C3: a stop (active turns false) leaves listening false, no pending
\* setting, the feedback empty, no utterance being spoken and no capture
\* pass running.
C3_StopResets ==
  [][(sessionActive /\ ~sessionActive')
       => (/\ isListening' = FALSE
           /\ suggestedSetting' = Null
           /\ voiceFeedback' = EmptyFeedback
           /\ utt' = <<>>
           /\ ~AnyCapturing')]_vars

\* C3 witness: stop has acted in the middle of a status readout: the
\* utterance was cancelled and the pass that heard the command is stopped.
C3_Witness ==
  /\ out.op = "toggleVoiceAssistant"
  /\ ~sessionActive
  /\ cancelled # EmptyBag
  /\ recognitionRef # <<>>
  /\ recognitionRef[1].status = "finishing"

\* C4: a setting is pending only while the session is active.
C4_PendingOnlyWhileActive ==
  (FullPlatform /\ suggestedSetting # Null) => sessionActive

\* C5: no capture pass is running while an utterance is being spoken.
C5_CaptureSpeechExclusive == ~(utt # <<>> /\ AnyCapturing)

\* C6: when a response of the interpreter has finished and the session is
\* active, a capture pass is running or something that restarts capture is
\* still to come.
C6_CaptureResumes ==
  (/\ out.op = "utterance.onend"
   /\ out.finished # <<>>
   /\ out.finished[1].kind \in InterpreterResponses
   /\ sessionActive)
    => (AnyCapturing \/ RestartPending)

\* C7: where speech recognition is unavailable the session never becomes
\* active, nothing listens and no capture pass exists.
C7_UnavailableStaysIdle ==
  ~recogSupported
    => (~sessionActive /\ ~isListening /\ recognitionRef = <<>>)

\* C8: when a boolean setting S is pending and an affirmative utterance is
\* dispatched, the one write is S := not S, a confirmation is spoken and
\* the pending setting becomes none.
C8_AffirmativeToggles ==
  [][\A S \in BoolKeys :
       (/\ FullPlatform
        /\ suggestedSetting = S
        /\ Dispatches
        /\ IsAffirmative(out'.command))
         => (/\ out'.writes = <<<<S, Negate(settings[S])>>>>
             /\ out'.spoken =
                  <<Msg("toggled", S, StatusWord(Negate(settings[S])), <<>>)>>
             /\ suggestedSetting' = Null)]_vars

\* C9: with no setting pending, an utterance with a lexicon keyword and no
\* affirmative word makes the keyword's setting pending, speaks the status
\* readout with the value the store holds, and writes nothing.
C9_KeywordSelects ==
  [][(/\ FullPlatform
      /\ suggestedSetting = Null
      /\ Dispatches
      /\ FoundKey(out'.command) # Null
      /\ ~IsAffirmative(out'.command))
       => (/\ suggestedSetting' = FoundKey(out'.command)
           /\ out'.writes = <<>>
           /\ out'.spoken =
                <<Readout(FoundKey(out'.command),
                          settings[FoundKey(out'.command)])>>)]_vars

\* C10: with colorBlindMode pending, an utterance that contains a mode name
\* writes colorBlindMode to that mode and clears the pending setting.
C10_ModeNameSetsMode ==
  [][(/\ FullPlatform
      /\ suggestedSetting = "colorBlindMode"
      /\ Dispatches
      /\ SelectedMode(out'.command) # Null)
       => (/\ settings'["colorBlindMode"] = SelectedMode(out'.command)
           /\ suggestedSetting' = Null)]_vars

\* C11: with colorBlindMode pending in a session the user started and did
\* not stop, a dispatched utterance with an affirmative word writes no
\* setting, leaves colorBlindMode as it is and pending, and the one thing
\* spoken is the prompt that lists the modes.
C11_AffirmativeKeepsMode ==
  [][(/\ FullPlatform
      /\ clicks = 1
      /\ sessionActive
      /\ suggestedSetting = "colorBlindMode"
      /\ Dispatches
      /\ IsAffirmative(out'.command))
       => (/\ out'.writes = <<>>
           /\ settings' = settings
           /\ suggestedSetting' = "colorBlindMode"
           /\ out'.spoken = <<Plain("modePrompt")>>)]_vars

\* C12: with no setting pending, a dispatched utterance with an affirmative
\* word speaks the "no setting selected" guidance, writes no setting and
\* leaves the pending setting none; and the assistant remains listening:
\* when that guidance has been spoken to its end in an active session, a
\* capture pass is running or something that restarts capture is to come.
C12_AffirmativeWithoutPending ==
  [][/\ (/\ FullPlatform
         /\ sessionActive
         /\ suggestedSetting = Null
         /\ Dispatches
         /\ IsAffirmative(out'.command))
          => (/\ out'.spoken = <<Plain("noSettingSelected")>>
              /\ out'.writes = <<>>
              /\ settings' = settings
              /\ suggestedSetting' = Null
              /\ sessionActive')
     /\ (/\ out'.op = "utterance.onend"
         /\ out'.finished = <<Plain("noSettingSelected")>>
         /\ sessionActive')
          => (AnyCapturing' \/ RestartPending')]_vars

\* The utterance names nothing: no lexicon keyword, no affirmative word, and
\* it is longer than the hint threshold.
Unmatched(command) ==
  /\ Len(command) > MinHintLength
  /\ FoundKey(command) = Null
  /\ ~IsAffirmative(command)

\* C13 (under SpecVoice): an unmatched utterance dispatched with no setting
\* pending changes neither the pending setting, the session nor a setting,
\* speaks nothing and leaves the "not found" hint as the feedback (so
\* dispatching it again gives the same pending setting, session, settings
\* and feedback).
C13_UnmatchedOnlyHints ==
  [][(/\ FullPlatform
      /\ suggestedSetting = Null
      /\ Dispatches
      /\ Unmatched(out'.command))
       => (/\ suggestedSetting' = Null
           /\ sessionActive' = sessionActive
           /\ settings' = settings
           /\ out'.writes = <<>>
           /\ out'.spoken = <<>>
           /\ voiceFeedback' = Plain("notFound"))]_vars

\* C14: when the end event of a capture pass that was listening arrives
\* while the session is active and nothing is being spoken, the restart of
\* capture is scheduled (or capture already runs); when the end event of a
\* pass arrives while the session is inactive, no capture pass is started.
C14_SilenceRestarts ==
  [][(/\ FullPlatform
      /\ out'.op = "onend"
      /\ ~out'.error
      /\ recognitionRef # <<>>
      /\ recognitionRef[1].status = "listening"
      /\ recognitionRef' = <<[recognitionRef[1] EXCEPT !.status = "ended"]>>)
       => (/\ (sessionActive /\ utt = <<>>)
                => (AnyCapturing' \/ timers' # timers)
           /\ ~sessionActive => (~AnyCapturing' /\ timers' = timers))]_vars

\* C15: when a capture pass ends because of an error of the recognition
\* service, the feedback text becomes a message about the error, and no
\* timer and no capture pass is started by that end event.
C15_FatalErrorSurfaced ==
  [][(/\ FullPlatform
      /\ sessionActive
      /\ out'.op = "onend"
      /\ out'.error)
       => (/\ voiceFeedback' # voiceFeedback
           /\ voiceFeedback'.kind = "recognitionError"
           /\ timers' = timers
           /\ ~AnyCapturing')]_vars

\* The capture passes that are running.
CapturingPasses == {live \in LivePasses : Capturing(live.pass)}

\* C16: at most one capture pass is running, and a running pass is the one
\* the recognition reference designates: a pass that was replaced by a
\* newer one has been stopped.
C16_OneCapturePass ==
  /\ \A live \in CapturingPasses : live.current
  /\ \A o \in BagToSet(replaced) : ~Capturing(o)
  /\ Cardinality(CapturingPasses) <= 1

\* C16 witness: in an active session a timer or the callback of a cancelled
\* utterance has started a pass while the previous one had not ended:
\* the previous one is stopped and waits for its end event, the reference
\* holds the new one, which is running.
C16_Witness ==
  /\ out.op \in {"timer", "utterance.onerror"}
  /\ sessionActive
  /\ replaced # EmptyBag
  /\ recognitionRef # <<>>
  /\ Capturing(recognitionRef[1])
  /\ \E o \in BagToSet(replaced) : o.status \in {"halted", "stopping"}

\* The calls of speak with an onEnd callback a handler made: the two status
\* readouts.
SpeakCallbacks(o) ==
  Cardinality({i \in DOMAIN o.spoken : o.spoken[i].kind \in {"found", "foundMode"}})

\* The onEnd callbacks still to be invoked: the one of the utterance being
\* spoken and those of the cancelled utterances.
PendingCallbacks ==
  (IF utt # <<>> /\ utt[1].cb # "none" THEN 1 ELSE 0) + BagCardinality(cancelled)

\* C17: every call of speak with a callback leads to one invocation of the
\* callback and no more: in every step the callbacks still to come plus the
\* callbacks invoked equal the callbacks that were to come plus the calls of
\* speak; when an utterance finishes its callback is invoked in that step;
\* and without speech synthesis the callback is invoked by speak itself.
C17_CallbackOnce ==
  [][/\ PendingCallbacks' + Len(out'.called)
          = PendingCallbacks + SpeakCallbacks(out')
     /\ out'.op = "utterance.onend"
          => (/\ utt # <<>>
              /\ utt' = <<>>
              /\ cancelled' = cancelled
              /\ out'.called = IF utt[1].cb = "none" THEN <<>> ELSE <<utt[1].cb>>)
     /\ ~synthSupported => Len(out'.called) = SpeakCallbacks(out')]_vars

\* C17 witness: a status readout was spoken to its end and its callback has
\* set the timer of the restart.
C17_Witness ==
  /\ out.op = "utterance.onend"
  /\ out.finished # <<>>
  /\ out.finished[1].kind = "found"
  /\ out.called = <<"confirm">>
  /\ timers # EmptyBag

\* The normalised texts: no upper-case letter, no white space at either end.
IsNormalized(command) ==
  /\ \A i \in DOMAIN command : command[i] \notin DOMAIN UpperToLower
  /\ command # <<>> => (command[1] \notin WhiteSpace
                          /\ command[Len(command)] \notin WhiteSpace)

\* C18: a result event with no final part changes the feedback text (to
\* what is being heard) and nothing else: no pending setting, no setting,
\* nothing spoken, the pass goes on; a result event with a final part hands
\* the interpreter one command, the lowercased and trimmed final text, and
\* the interpreter answers with at most one utterance and one write.
C18_OnlyFinalDispatched ==
  [][(results' # results)
       => /\ out'.command = <<>>
               => (/\ voiceFeedback'.kind = "hearing"
                   /\ suggestedSetting' = suggestedSetting
                   /\ settings' = settings
                   /\ sessionActive' = sessionActive
                   /\ out'.spoken = <<>>
                   /\ out'.writes = <<>>
                   /\ out'.called = <<>>
                   /\ utt' = utt
                   /\ timers' = timers
                   /\ recognitionRef' = recognitionRef
                   /\ replaced' = replaced)
          /\ out'.command # <<>>
               => (/\ out'.command \in {Normalize(f) : f \in FinalTranscripts}
                   /\ IsNormalized(out'.command)
                   /\ Len(out'.spoken) <= 1
                   /\ Len(out'.writes) <= 1)]_vars

\* C18 witness: an interim result has arrived: the feedback shows what is
\* being heard and the pass still listens.
C18_Witness ==
  /\ out.op = "onresult"
  /\ out.command = <<>>
  /\ voiceFeedback = Msg("hearing", Null, Null, T_Hearing)
  /\ \E live \in LivePasses : live.pass.status = "listening"

\* C19: after a handler in which recognition.start() threw, the session is
\* inactive, or a capture pass is running, or something that restarts
\* capture is still to come.
C19_ThrowLeavesSafeState ==
  [][out'.threw
       => (~sessionActive' \/ AnyCapturing' \/ RestartPending')]_vars

\* C20: the listening flag is true only while the session is active.
C20_ListeningOnlyWhileActive ==
  (FullPlatform /\ isListening) => sessionActive

\* The keywords, by their place in the table, that the text contains.
Hits(text) ==
  {i \in DOMAIN keywordMap : Includes(text, keywordMap[i].keyword)}

\* The place in the text where the keyword first occurs.
FirstAt(text, keyword) ==
  CHOOSE i \in 1..(Len(text) - Len(keyword) + 1) :
    /\ SubSeq(text, i, i + Len(keyword) - 1) = keyword
    /\ \A j \in 1..(i - 1) : SubSeq(text, j, j + Len(keyword) - 1) # keyword

\* C21 (under SpecText): the lexicon loop yields none exactly when the
\* command contains no keyword; otherwise it yields the setting of a keyword
\* the command contains such that no keyword before it in the table is
\* contained, whatever the lengths and the places of the keywords.
C21_FirstKeywordInTableOrder ==
  pc = "found"
    => /\ (lookupKey = Null) <=> (Hits(normalized) = {})
       /\ \A i \in Hits(normalized) :
            (\A j \in Hits(normalized) : i <= j)
              => lookupKey = keywordMap[i].key

\* C21 witness: the command contains keywords of two settings, and the one
\* that wins is the shorter one and occurs later in the command.
C21_Witness ==
  /\ pc = "found"
  /\ \E i, j \in Hits(normalized) :
       /\ i < j
       /\ \A k \in Hits(normalized) : i <= k
       /\ keywordMap[i].key # keywordMap[j].key
       /\ lookupKey = keywordMap[i].key
       /\ Len(keywordMap[i].keyword) < Len(keywordMap[j].keyword)
       /\ FirstAt(normalized, keywordMap[j].keyword)
            < FirstAt(normalized, keywordMap[i].keyword)

\* C22 (under SpecText): normalising a normalised command changes nothing.
C22_NormalizeIdempotent ==
  [][(pc = "found" /\ pc' = "again") => normalized' = normalized]_vars

\* C22 witness: a transcript with upper-case letters and white space at both
\* ends has been normalised twice.
C22_Witness ==
  /\ pc = "again"
  /\ finalTranscript[1] \in WhiteSpace
  /\ finalTranscript[Len(finalTranscript)] \in WhiteSpace
  /\ \E i \in DOMAIN finalTranscript : finalTranscript[i] \in DOMAIN UpperToLower
  /\ normalized # <<>>
  /\ normalized # finalTranscript

\* A confirmed toggle: the dispatched utterance is affirmative and the
\* interpreter writes the boolean setting S.
ConfirmedToggle(S) ==
  /\ Dispatches
  /\ IsAffirmative(out'.command)
  /\ out'.writes # <<>>
  /\ out'.writes[1][1] = S

\* C23 (under SpecDialogue): each confirmed toggle of a boolean setting S
\* leaves S with the negation of the value the store held when the
\* utterance was dispatched (so two confirmed toggles in succession restore
\* the value, and n of them change it iff n is odd).
C23_ToggleNegatesStore ==
  [][\A S \in BoolKeys :
       (FullPlatform /\ ConfirmedToggle(S))
         => settings'[S] = Negate(settings[S])]_vars

\* The captured values held by the capture passes, by the pending timers and
\* by the callbacks of speak that are still to be invoked.
PassEnvs == {live.pass.env : live \in LivePasses}

CapturedEnvs ==
  PassEnvs
    \cup {t.env : t \in BagToSet(timers)}
    \cup {c.env : c \in BagToSet(cancelled)}
    \cup {utt[i].env : i \in {j \in DOMAIN utt : utt[j].cb # "none"}}

\* The step is a click on the microphone button that starts a session.
StartAction ==
  /\ out'.op = "toggleVoiceAssistant"
  /\ ~sessionActive
  /\ sessionActive'

\* C24: the pass of a start action captures the values of sessionActive,
\* suggestedSetting and settings of the moment of the click; in every other
\* step the captured values of the passes, timers and callbacks are ones
\* that a pass, timer or callback held before (a restarted pass inherits
\* them); and the interpreter answers from the captured values of the pass
\* that heard the utterance, whatever the pending setting and the store are:
\* an affirmative toggles the captured pending setting to the negation of
\* its captured value or, with none captured, gives the guidance, and a
\* keyword is read out with its captured value.
C24_PassesUseCapturedValues ==
  [][/\ (StartAction /\ recogSupported)
          => recognitionRef'[1].env =
               [active |-> sessionActive, suggested |-> suggestedSetting,
                settings |-> settings]
     /\ ~StartAction => CapturedEnvs' \subseteq CapturedEnvs
     /\ (/\ FullPlatform
         /\ Dispatches
         /\ replaced = EmptyBag
         /\ recognitionRef # <<>>)
          => LET env == recognitionRef[1].env
                 command == out'.command
             IN /\ (IsAffirmative(command) /\ env.suggested \in BoolKeys)
                     => out'.writes =
                          <<<<env.suggested,
                              Negate(env.settings[env.suggested])>>>>
                /\ (IsAffirmative(command) /\ env.suggested = Null)
                     => (/\ out'.writes = <<>>
                         /\ out'.spoken = <<Plain("noSettingSelected")>>)
                /\ (/\ ~IsAffirmative(command)
                    /\ FoundKey(command) # Null
                    /\ env.suggested = Null)
                     => out'.spoken =
                          <<Readout(FoundKey(command),
                                    env.settings[FoundKey(command)])>>]_vars

\* C24 witness: in an active session a pass restarted by a timer or by a
\* speech-completion callback is capturing with the values of the start
\* click (session inactive, no setting pending) although a setting has
\* become pending since.
C24_Witness ==
  /\ FullPlatform
  /\ sessionActive
  /\ out.op \in {"timer", "utterance.onend"}
  /\ recognitionRef # <<>>
  /\ Capturing(recognitionRef[1])
  /\ recognitionRef[1].env.active = FALSE
  /\ recognitionRef[1].env.suggested = Null
  /\ suggestedSetting # Null

\* The dispatched utterance contains an affirmative word and a keyword of
\* setting Q.
AffirmativeWithKeyword(Q) ==
  /\ Dispatches
  /\ IsAffirmative(out'.command)
  /\ FoundKey(out'.command) = Q

\* C25 (under SpecDialogue): an utterance with an affirmative word and a
\* keyword of setting Q is handled as an affirmative only: with a boolean
\* setting P pending the one write is P := not P, with none pending the
\* "no setting selected" guidance is spoken and nothing is written, and
\* neither does Q become the pending setting nor is Q written (Q other than
\* the pending setting).
C25_AffirmativeBeforeKeyword ==
  [][\A Q \in SettingKeys :
       (FullPlatform /\ AffirmativeWithKeyword(Q) /\ suggestedSetting # Q)
         => (/\ suggestedSetting' # Q
             /\ \A i \in DOMAIN out'.writes : out'.writes[i][1] # Q
             /\ suggestedSetting \in BoolKeys
                  => out'.writes =
                       <<<<suggestedSetting, Negate(settings[suggestedSetting])>>>>
             /\ suggestedSetting = Null
                  => (/\ out'.writes = <<>>
                      /\ out'.spoken = <<Plain("noSettingSelected")>>))]_vars

\* With P pending, the dispatched utterance has no affirmative word and
\* contains a keyword of another setting Q (and no mode name when P is
\* colorBlindMode).
ReplacesPending(P, Q) ==
  /\ suggestedSetting = P
  /\ P # Q
  /\ Dispatches
  /\ ~IsAffirmative(out'.command)
  /\ FoundKey(out'.command) = Q
  /\ P = "colorBlindMode" => SelectedMode(out'.command) = Null

\* What an affirmative does to the pending setting Q it acts on: a boolean
\* Q is written with its negation, for colorBlindMode the modes are listed.
ActsOn(Q) ==
  IF Q = "colorBlindMode"
    THEN out'.writes = <<>> /\ out'.spoken = <<Plain("modePrompt")>>
    ELSE out'.writes = <<<<Q, Negate(settings[Q])>>>>

\* The setting the first utterance of a dialogue selects.
OpeningSetting == FoundKey(Normalize(T_HighContrast))

\* C26 (under SpecDialogue): with a setting P pending, a non-affirmative
\* utterance with a keyword of another setting Q makes Q the pending
\* setting and writes nothing; a later affirmative then acts on Q: in a
\* session the user started and did not stop, the first utterance selects
\* P, so that a setting Q other than P pending at the third utterance has
\* replaced P with the second one, and an affirmative third utterance toggles
\* Q (lists the modes when Q is colorBlindMode) and writes nothing else.
C26_KeywordReplacesPending ==
  [][/\ \A P, Q \in SettingKeys :
          (FullPlatform /\ ReplacesPending(P, Q))
            => (suggestedSetting' = Q /\ out'.writes = <<>>)
     /\ \A Q \in SettingKeys \ {OpeningSetting} :
          (/\ FullPlatform
           /\ clicks = 1
           /\ results = 2
           /\ suggestedSetting = Q
           /\ Dispatches
           /\ IsAffirmative(out'.command))
            => ActsOn(Q)]_vars

\* The step serves the request: it is no tick of the clock, and the request
\* is the last one served.
Serves(request) == now' = now /\ served'.request = request

FavoriteRow(u, r) == [user_id |-> u, restaurant_id |-> r]

\* C28 (under SpecApi): for a signed-in user u and a restaurant r, POST to
\* the favorites route toggles the row (u, r): absent before, the answer is
\* 200 with favorited = true and the row is there afterwards; present
\* before, the answer is 200 with favorited = false and the row is gone;
\* no other row of user_favorites changes; posting the same request twice
\* gives back the table as it was; and no row is stored twice.
C28_FavoriteToggles ==
  [][/\ \A u \in UserIds, r \in Restaurants :
          LET body == [parsed |-> TRUE, restaurantId |-> r]
              row == FavoriteRow(u, r)
              once == FavoritesPost(Db, u, body)
              twice == FavoritesPost(once.db, u, body)
          IN /\ twice.db.user_favorites = user_favorites
             /\ Serves(Request("favorites", "POST", u, body))
                  => /\ served'.status = 200
                     /\ served'.favorited = ~BagIn(row, user_favorites)
                     /\ BagIn(row, user_favorites') = ~BagIn(row, user_favorites)
                     /\ \A other \in (BagToSet(user_favorites)
                                        \cup BagToSet(user_favorites')) \ {row} :
                          CopiesIn(other, user_favorites')
                            = CopiesIn(other, user_favorites)
     /\ \A row \in BagToSet(user_favorites') :
          CopiesIn(row, user_favorites') = 1]_vars

\* C28 witness: a POST has removed the favorite of a user who has a row in
\* users: the answer is favorited = false and the row is gone.
C28_Witness ==
  \E u \in UserIds, r \in Restaurants :
    /\ served.request =
         Request("favorites", "POST", u, [parsed |-> TRUE, restaurantId |-> r])
    /\ served.status = 200
    /\ ~served.favorited
    /\ u \in users
    /\ ~BagIn(FavoriteRow(u, r), user_favorites)

\* The addresses of user u that are the default, each as often as the table
\* holds it.
Defaults(table, u) ==
  Select(table, {r \in BagToSet(table) :
                   r.user_id = u /\ r.is_default = 1})

\* C29 (under SpecApi): of the addresses of a user at most one is the
\* default; a POST to the addresses route by a signed-in user with type,
\* address and isDefault true inserts an address and leaves it as the one
\* default of the user; and a POST with isDefault false leaves every row
\* that was in the table in it, with its is_default.
C29_OneDefaultAddress ==
  [][\A u \in UserIds :
       /\ BagCardinality(Defaults(user_addresses', u)) <= 1
       /\ \A body \in AddressBodies :
            (/\ Serves(Request("addresses", "POST", u, body))
             /\ body.parsed
             /\ body.type # Null
             /\ body.address # Null)
              => IF body.isDefault
                   THEN /\ served'.status = 200
                        /\ BagToSet(Defaults(user_addresses', u))
                             = {r \in BagToSet(user_addresses') :
                                  r.id = served'.id}
                   ELSE user_addresses \sqsubseteq user_addresses']_vars

\* The rows of the three tables of the user routes.
UserTables == <<users, user_favorites, user_addresses>>

\* C30 (under SpecApi): when nobody is signed in, POST to the favorites or
\* the addresses route answers 401, whatever the body is, and GET answers
\* 200 with an empty list, and no row of users, user_favorites or
\* user_addresses changes; when a user is signed in and the body is an
\* object without restaurantId (without address or without type), POST
\* answers 400 and no row changes either.
C30_RejectedRequestsChangeNothing ==
  [][/\ \A route \in {"favorites", "addresses"} :
          \A body \in FavoriteBodies \cup AddressBodies :
            Serves(Request(route, "POST", Null, body))
              => (served'.status = 401 /\ UserTables' = UserTables)
     /\ \A route \in {"favorites", "addresses"} :
          Serves(Request(route, "GET", Null, Null))
            => (/\ served'.status = 200
                /\ served'.rows = EmptyBag
                /\ UserTables' = UserTables)
     /\ \A u \in UserIds :
          /\ Serves(Request("favorites", "POST", u,
                            [parsed |-> TRUE, restaurantId |-> Null]))
               => (served'.status = 400 /\ UserTables' = UserTables)
          /\ \A body \in AddressBodies :
               (/\ Serves(Request("addresses", "POST", u, body))
                /\ body.parsed
                /\ (body.address = Null \/ body.type = Null))
                 => (served'.status = 400 /\ UserTables' = UserTables)]_vars

\* C30 witness: with rows in all three tables, a POST to the addresses
\* route by a signed-in user whose body has no address was answered 400.
C30_Witness ==
  /\ users # {}
  /\ user_favorites # EmptyBag
  /\ user_addresses # EmptyBag
  /\ served.request.route = "addresses"
  /\ served.request.method = "POST"
  /\ served.request.userId \in UserIds
  /\ served.request.body.parsed
  /\ served.request.body.address = Null
  /\ served.request.body.isDefault
  /\ served.status = 400
====
